---- MODULE Spec2Model ----
(***************************************************************************)
(* XML to Excel column mapping tool (app.py, process.py, utils.py).        *)
(*                                                                         *)
(* Python strings are modelled as sequences of one-character strings, so   *)
(* that joining, splitting, prefix tests and ordering are computed and not *)
(* assumed.  Python's None and pandas' NaN are the two one-element         *)
(* sequences below; no string of characters equals either of them.         *)
(***************************************************************************)
EXTENDS Integers, Sequences, FiniteSets, TLC

None == <<"None">>
NaN  == <<"NaN">>

\* F(v) for v the value of e: a local variable, assigned once and then read
Let(e, F(_)) == CHOOSE r \in {F(v) : v \in {e}} : TRUE

(***************************************************************************)
(* Python str primitives                                                   *)
(***************************************************************************)

\* The characters of the model in code point order (Python compares str by
\* code point).
Alphabet ==
    << " ", "*", ".", "/", "0", "1", "2", ":", "@",
       "A", "N", "S", "T", "U", "a", "b", "c", "d", "e", "k", "m", "n", "x", "y",
       "{", "}" >>

Ord(c) == CHOOSE i \in 1..Len(Alphabet) : Alphabet[i] = c

\* s < t for two str
StrLess(s, t) ==
    \E i \in 1..Len(t) :
        /\ i <= Len(s) + 1
        /\ \A j \in 1..(i - 1) : s[j] = t[j]
        /\ (i <= Len(s) => Ord(s[i]) < Ord(t[i]))

\* s.startswith(p)
StartsWith(s, p) ==
    /\ Len(p) <= Len(s)
    /\ \A i \in 1..Len(p) : s[i] = p[i]

\* s[n:]
DropFirst(s, n) == IF n >= Len(s) THEN <<>> ELSE SubSeq(s, n + 1, Len(s))

\* c in s, for a character c
HasChar(s, c) == \E i \in 1..Len(s) : s[i] = c

Whitespace == {" "}

\* s.strip()
Strip(s) ==
    LET keep == {i \in 1..Len(s) : s[i] \notin Whitespace}
    IN  IF keep = {} THEN <<>>
        ELSE LET lo == CHOOSE i \in keep : \A j \in keep : i <= j
                 hi == CHOOSE i \in keep : \A j \in keep : j <= i
             IN  SubSeq(s, lo, hi)

\* Python truth value of an Optional[str]
Truthy(s) == s # None /\ s # <<>>

\* The places where "/@" starts in s
SlashAtPlaces(s) == {i \in 1..(Len(s) - 1) : s[i] = "/" /\ s[i + 1] = "@"}

\* s.rsplit('/@', 1): one piece when "/@" does not occur, else two
RSplitSlashAt(s) ==
    IF SlashAtPlaces(s) = {} THEN << s >>
    ELSE LET i == CHOOSE i \in SlashAtPlaces(s) : \A j \in SlashAtPlaces(s) : j <= i
         IN  << SubSeq(s, 1, i - 1), DropFirst(s, i + 1) >>

\* s.split('/', 1)
SplitSlash(s) ==
    IF ~HasChar(s, "/") THEN << s >>
    ELSE LET i == CHOOSE i \in 1..Len(s) :
                      s[i] = "/" /\ \A j \in 1..(i - 1) : s[j] # "/"
         IN  << SubSeq(s, 1, i - 1), DropFirst(s, i) >>

\* sorted(list(set(paths))) for a set of str
RECURSIVE SortedList(_)
SortedList(S) ==
    IF S = {} THEN <<>>
    ELSE LET m == CHOOSE m \in S : \A o \in S \ {m} : StrLess(m, o)
         IN  << m >> \o SortedList(S \ {m})

Range(s) == {s[i] : i \in 1..Len(s)}

RECURSIVE Concat(_)
Concat(ss) == IF ss = <<>> THEN <<>> ELSE Head(ss) \o Concat(Tail(ss))

(***************************************************************************)
(* XML documents.  An element is a record                                  *)
(*   [tag, text, attrib, children]                                         *)
(* with text a str or None, attrib a sequence of <<name, value>> pairs in  *)
(* document order and children a sequence of elements.  A file is          *)
(* [wf |-> TRUE, root |-> element] or, when it is not well-formed,         *)
(* [wf |-> FALSE]: ET.parse raises ParseError on it.                       *)
(***************************************************************************)

Elem(tag, text, attrib, children) ==
    [tag |-> tag, text |-> text, attrib |-> attrib, children |-> children]

Malformed == [wf |-> FALSE]
Doc(root) == [wf |-> TRUE, root |-> root]

\* line 51 without its test for children
IsTextLeafAnyChildren(element) ==
    /\ Truthy(element.text)
    /\ Truthy(Strip(element.text))

\* line 51: len(element) == 0 and element.text and element.text.strip()
IsTextLeaf(element) ==
    /\ Len(element.children) = 0
    /\ Truthy(element.text)
    /\ Truthy(Strip(element.text))

\* utils.py: get_xpath, the list of paths in emission order
RECURSIVE get_xpath(_, _), get_xpath_children(_, _)
get_xpath(element, current_path) ==
    LET path == IF current_path # <<>>
                THEN current_path \o <<"/">> \o element.tag
                ELSE element.tag
        leaf == IF IsTextLeaf(element) THEN << path >> ELSE <<>>
        attrs == [i \in 1..Len(element.attrib) |->
                      path \o <<"/", "@">> \o element.attrib[i][1]]
    IN  leaf \o attrs \o get_xpath_children(element.children, path)
get_xpath_children(children, path) ==
    IF children = <<>> THEN <<>>
    ELSE get_xpath(Head(children), path) \o get_xpath_children(Tail(children), path)

\* utils.py: extract_xml_tags; a parse error is caught and gives []
extract_xml_tags(xml_file) ==
    IF ~xml_file.wf THEN <<>>
    ELSE SortedList(Range(get_xpath(xml_file.root, <<>>)))

(***************************************************************************)
(* Element.findall (xml.etree.ElementPath).  An element of the tree is     *)
(* named by its position: the sequence of child indexes from the root.     *)
(* Paths here hold tag characters, "/", "@", ".", "*", ":" and the braces  *)
(* of a namespace ("{uri}local", the tag ET.parse gives an element in a    *)
(* namespace) only.                                                        *)
(***************************************************************************)

RECURSIVE ElemAt(_, _)
ElemAt(root, p) ==
    IF p = <<>> THEN root ELSE ElemAt(root.children[Head(p)], Tail(p))

ChildPositions(root, p) ==
    [i \in 1..Len(ElemAt(root, p).children) |-> p \o << i >>]

\* Element.iter(): the position and its descendants in document order
RECURSIVE IterPositions(_, _)
IterPositions(root, p) ==
    << p >> \o Concat([i \in 1..Len(ElemAt(root, p).children) |->
                           IterPositions(root, p \o << i >>)])

\* [s[i] : i in the places of s that satisfy keep], order kept
RECURSIVE Filter(_, _)
Filter(s, keep) ==
    IF s = <<>> THEN <<>>
    ELSE (IF Head(s) \in keep THEN << Head(s) >> ELSE <<>>) \o Filter(Tail(s), keep)

OpChars == {"/", "@", ".", "*", ":"}
\* characters the tokenizer's tag pattern [^/\[\]\(\)@!=\s]+ stops at
TagStops == {"/", "@"}

\* the place of the "}" that ends the pattern's optional \{[^}]+\} at place
\* i, when tag characters follow it; 0 when the tag takes no such start
BraceEnd(s, i) ==
    LET ends == {j \in (i + 2)..(Len(s) - 1) :
                    /\ s[i] = "{"
                    /\ s[j] = "}"
                    /\ \A k \in (i + 1)..(j - 1) : s[k] # "}"
                    /\ s[j + 1] \notin TagStops}
    IN  IF ends = {} THEN 0 ELSE CHOOSE j \in ends : TRUE

\* xpath_tokenizer_re.findall: the tokens (op, tag) from place i on
RECURSIVE Tokens(_, _)
Tokens(s, i) ==
    IF i > Len(s) THEN <<>>
    ELSE IF s[i] = "/" /\ i < Len(s) /\ s[i + 1] = "/"
         THEN << [op |-> "//", tag |-> <<>>] >> \o Tokens(s, i + 2)
    ELSE IF s[i] = "." /\ i < Len(s) /\ s[i + 1] = "."
         THEN << [op |-> "..", tag |-> <<>>] >> \o Tokens(s, i + 2)
    ELSE IF s[i] \in OpChars
         THEN << [op |-> s[i], tag |-> <<>>] >> \o Tokens(s, i + 1)
    ELSE LET from == IF BraceEnd(s, i) = 0 THEN i ELSE BraceEnd(s, i)
             stops == {j \in from..Len(s) : s[j] \in TagStops}
             e == IF stops = {} THEN Len(s)
                  ELSE (CHOOSE j \in stops : \A k \in stops : j <= k) - 1
         IN  << [op |-> "", tag |-> SubSeq(s, i, e)] >> \o Tokens(s, e + 1)

\* iterfind's selector loop from token i on: the steps, or the error raised
\* while the selector is built (ops[...] KeyError, SyntaxError of
\* prepare_descendant, an unmapped prefix, or the None that
\* prepare_descendant returns at the end of the path and that is then called)
RECURSIVE Selector(_, _)
Selector(toks, i) ==
    LET t == toks[i]
        step ==
            IF t.op = "" THEN
                IF t.tag[1] # "{" /\ HasChar(t.tag, ":") THEN [err |-> TRUE]
                ELSE [err |-> FALSE, kind |-> "child", tag |-> t.tag, used |-> 1]
            ELSE IF t.op = "*" THEN [err |-> FALSE, kind |-> "star", tag |-> <<>>, used |-> 1]
            ELSE IF t.op = "." THEN [err |-> FALSE, kind |-> "self", tag |-> <<>>, used |-> 1]
            ELSE IF t.op = ".." THEN [err |-> FALSE, kind |-> "parent", tag |-> <<>>, used |-> 1]
            ELSE IF t.op = "//" THEN
                IF i = Len(toks) THEN [err |-> TRUE]
                ELSE IF toks[i + 1].op = "*"
                     THEN [err |-> FALSE, kind |-> "desc", tag |-> <<"*">>, used |-> 2]
                ELSE IF toks[i + 1].op = ""
                        /\ (toks[i + 1].tag[1] = "{" \/ ~HasChar(toks[i + 1].tag, ":"))
                     THEN [err |-> FALSE, kind |-> "desc", tag |-> toks[i + 1].tag, used |-> 2]
                ELSE [err |-> TRUE]
            ELSE [err |-> TRUE]
    IN  IF step.err THEN [err |-> TRUE]
        ELSE LET n == i + step.used
                 \* token = next(); if token[0] == "/": token = next()
                 m == IF n <= Len(toks) /\ toks[n].op = "/" THEN n + 1 ELSE n
                 rest == IF m > Len(toks) THEN [err |-> FALSE, steps |-> <<>>]
                         ELSE Selector(toks, m)
             IN  IF rest.err THEN [err |-> TRUE]
                 ELSE [err |-> FALSE,
                       steps |-> << [kind |-> step.kind, tag |-> step.tag] >> \o rest.steps]

\* one select(context, result) of ElementPath
ApplyStep(root, st, result) ==
    IF st.kind = "child" THEN
        Concat([i \in 1..Len(result) |->
            Filter(ChildPositions(root, result[i]),
                   {q \in Range(ChildPositions(root, result[i])) :
                        ElemAt(root, q).tag = st.tag})])
    ELSE IF st.kind = "star" THEN
        Concat([i \in 1..Len(result) |-> ChildPositions(root, result[i])])
    ELSE IF st.kind = "self" THEN result
    ELSE IF st.kind = "desc" THEN
        Concat([i \in 1..Len(result) |->
            Filter(Tail(IterPositions(root, result[i])),
                   {q \in Range(IterPositions(root, result[i])) :
                        st.tag = <<"*">> \/ ElemAt(root, q).tag = st.tag})])
    ELSE \* parent: each parent once, the root has none
        LET ps == [i \in 1..Len(result) |->
                      IF result[i] = <<>> THEN <<>>
                      ELSE << SubSeq(result[i], 1, Len(result[i]) - 1) >>]
            all == Concat(ps)
            marked == Filter([i \in 1..Len(all) |->
                                 [p |-> all[i],
                                  first |-> \A j \in 1..(i - 1) : all[j] # all[i]]],
                             {[p |-> q, first |-> TRUE] : q \in Range(all)})
        IN  [i \in 1..Len(marked) |-> marked[i].p]

RECURSIVE ApplySteps(_, _, _)
ApplySteps(root, steps, result) ==
    IF steps = <<>> THEN result
    ELSE ApplySteps(root, Tail(steps), ApplyStep(root, Head(steps), result))

\* root.findall(path): [err |-> TRUE] when it raises, else the positions found
findall(root, path) ==
    LET p == IF path # <<>> /\ path[Len(path)] = "/" THEN path \o <<"*">> ELSE path
    IN  IF p # <<>> /\ p[1] = "/" THEN [err |-> TRUE]
        ELSE IF Tokens(p, 1) = <<>> THEN [err |-> FALSE, found |-> <<>>]
        ELSE LET sel == Selector(Tokens(p, 1), 1)
             IN  IF sel.err THEN [err |-> TRUE]
                 ELSE [err |-> FALSE, found |-> ApplySteps(root, sel.steps, << <<>> >>)]

(***************************************************************************)
(* pandas.  A DataFrame is [columns, data, nrows]: the column names in     *)
(* order, the columns' value lists in the same order, and the length of    *)
(* its RangeIndex.  Columns hold Python objects (dtype object): None stays *)
(* None, and rows added by reindex or by index alignment hold NaN.         *)
(* A dict is the sequence of its <<key, value>> items in insertion order.  *)
(***************************************************************************)

Keys(d) == [i \in 1..Len(d) |-> d[i][1]]
HasKey(d, k) == \E i \in 1..Len(d) : d[i][1] = k
Get(d, k) == d[CHOOSE i \in 1..Len(d) : d[i][1] = k][2]
\* d[k] = v
Put(d, k, v) ==
    IF HasKey(d, k) THEN [i \in 1..Len(d) |-> IF d[i][1] = k THEN << k, v >> ELSE d[i]]
    ELSE Append(d, << k, v >>)

Repeat(v, n) == [i \in 1..n |-> v]
Max(a, b) == IF a >= b THEN a ELSE b
\* the greatest of the numbers, 0 when there is none
Longest(lens) == CHOOSE n \in lens \cup {0} : \A k \in lens \cup {0} : k <= n

\* pd.DataFrame()
EmptyFrame == [columns |-> <<>>, data |-> <<>>, nrows |-> 0]
\* pd.DataFrame(dict of equally long lists)
FrameOf(d, n) == [columns |-> Keys(d), data |-> [i \in 1..Len(d) |-> d[i][2]], nrows |-> n]
\* df[col]
Column(df, col) == df.data[CHOOSE i \in 1..Len(df.columns) : df.columns[i] = col]
HasColumn(df, col) == \E i \in 1..Len(df.columns) : df.columns[i] = col
\* df.empty
IsEmptyFrame(df) == df.nrows = 0 \/ Len(df.columns) = 0
\* df.reindex(pd.RangeIndex(0, target_rows))
Reindex(df, target_rows) ==
    [columns |-> df.columns,
     data |-> [i \in 1..Len(df.data) |->
                  [r \in 1..target_rows |->
                      IF r <= df.nrows THEN df.data[i][r] ELSE NaN]],
     nrows |-> target_rows]
\* df[col] = series, for a column df does not have: aligned on df's index
AssignColumn(df, col, series) ==
    [columns |-> Append(df.columns, col),
     data |-> Append(df.data,
                  [r \in 1..df.nrows |-> IF r <= Len(series) THEN series[r] ELSE NaN]),
     nrows |-> df.nrows]

(***************************************************************************)
(* process.py: extract_data_from_one_xml                                   *)
(***************************************************************************)

\* elem.get(attr_name)
ElemGet(elem, attr_name) ==
    IF \E i \in 1..Len(elem.attrib) : elem.attrib[i][1] = attr_name
    THEN elem.attrib[CHOOSE i \in 1..Len(elem.attrib) : elem.attrib[i][1] = attr_name][2]
    ELSE None

\* elem.text if elem.text is not None else ""
ElemText(elem) == IF elem.text # None THEN elem.text ELSE <<>>

\* lines 48-55 and 59-64: the search expression relative to the root
path_for_findall(root_tag, xml_path) ==
    IF xml_path = root_tag THEN <<".">>
    ELSE IF StartsWith(xml_path, root_tag \o <<"/">>)
         THEN DropFirst(xml_path, Len(root_tag) + 1)
    ELSE xml_path

\* lines 38-76 with line 72 appending only the attributes that are there
ColumnValuesSkipsMissing(root, xml_tag_path) ==
    IF xml_tag_path = None THEN [err |-> TRUE]
    ELSE IF HasChar(xml_tag_path, "@") /\ Len(RSplitSlashAt(xml_tag_path)) # 2
    THEN [err |-> TRUE]
    ELSE Let(findall(root, path_for_findall(root.tag,
                 IF HasChar(xml_tag_path, "@") THEN RSplitSlashAt(xml_tag_path)[1]
                 ELSE xml_tag_path)),
             LAMBDA find_elements :
                 IF find_elements.err THEN [err |-> TRUE]
                 ELSE IF HasChar(xml_tag_path, "@")
                 THEN [err |-> FALSE,
                       values |-> Filter([i \in 1..Len(find_elements.found) |->
                                     ElemGet(ElemAt(root, find_elements.found[i]),
                                             RSplitSlashAt(xml_tag_path)[2])],
                                     {ElemGet(ElemAt(root, find_elements.found[i]),
                                              RSplitSlashAt(xml_tag_path)[2]) :
                                          i \in 1..Len(find_elements.found)} \ {None})]
                 ELSE [err |-> FALSE,
                       values |-> [i \in 1..Len(find_elements.found) |->
                                      ElemText(ElemAt(root, find_elements.found[i]))]])

\* lines 38-76 for one column: [err |-> TRUE] when the code raises (a None
\* path in "'@' in xml_tag_path", rsplit giving one piece, findall raising),
\* else the values list
ColumnValues(root, xml_tag_path) ==
    IF xml_tag_path = None THEN [err |-> TRUE]
    ELSE IF HasChar(xml_tag_path, "@") /\ Len(RSplitSlashAt(xml_tag_path)) # 2
    THEN [err |-> TRUE]
    ELSE Let(findall(root, path_for_findall(root.tag,
                 IF HasChar(xml_tag_path, "@") THEN RSplitSlashAt(xml_tag_path)[1]
                 ELSE xml_tag_path)),
             LAMBDA find_elements :
                 IF find_elements.err THEN [err |-> TRUE]
                 ELSE IF HasChar(xml_tag_path, "@")
                 THEN [err |-> FALSE,
                       values |-> [i \in 1..Len(find_elements.found) |->
                                      ElemGet(ElemAt(root, find_elements.found[i]),
                                              RSplitSlashAt(xml_tag_path)[2])]]
                 ELSE [err |-> FALSE,
                       values |-> [i \in 1..Len(find_elements.found) |->
                                      ElemText(ElemAt(root, find_elements.found[i]))]])

\* line 86 with the padding put before the values
AlignColumnPadsHead(val_list, max_len) ==
    LET padded == Repeat(None, Max(0, max_len - Len(val_list))) \o val_list
    IN  SubSeq(padded, 1, max_len)

\* line 86: (val_list + [None] * (max_len - len(val_list)))[:max_len]
AlignColumn(val_list, max_len) ==
    LET padded == val_list \o Repeat(None, Max(0, max_len - Len(val_list)))
    IN  SubSeq(padded, 1, max_len)

\* lines 79-90: the DataFrame of the sheet from raw_sheet_data and max_len
AlignedFrame(raw_sheet_data, max_len) ==
    IF raw_sheet_data # <<>>
    THEN FrameOf([i \in 1..Len(raw_sheet_data) |->
                     << raw_sheet_data[i][1], AlignColumn(raw_sheet_data[i][2], max_len) >>],
                 max_len)
    ELSE EmptyFrame

\* lines 34-90 for one sheet: [err |-> TRUE] or the sheet's DataFrame
SheetFrame(root, sheet_mappings) ==
    Let([i \in 1..Len(sheet_mappings) |-> ColumnValues(root, sheet_mappings[i][2])],
        LAMBDA cols :
            IF \E i \in 1..Len(cols) : cols[i].err THEN [err |-> TRUE]
            ELSE [err |-> FALSE,
                  df |-> AlignedFrame(
                      [i \in 1..Len(cols) |-> << sheet_mappings[i][1], cols[i].values >>],
                      Longest({Len(cols[i].values) : i \in 1..Len(cols)}))])

\* extract_data_from_one_xml: [err |-> TRUE] when it raises (ParseError of
\* ET.parse, or any column's error: nothing in the function catches), else
\* the dict sheet name -> DataFrame
extract_data_from_one_xml(xml_file, mappings_for_this_xml) ==
    IF ~xml_file.wf THEN [err |-> TRUE]
    ELSE Let([i \in 1..Len(mappings_for_this_xml) |->
                 SheetFrame(xml_file.root, mappings_for_this_xml[i][2])],
             LAMBDA frames :
                 IF \E i \in 1..Len(frames) : frames[i].err THEN [err |-> TRUE]
                 ELSE [err |-> FALSE,
                       data |-> [i \in 1..Len(frames) |->
                                    << mappings_for_this_xml[i][1], frames[i].df >>]])

(***************************************************************************)
(* openpyxl.  A workbook is the sequence of its worksheets in sheetnames   *)
(* order; a worksheet is [title, ncols, rows, merged]: rows is the grid of *)
(* cell values, every row ncols (max_column) wide, None for an empty cell, *)
(* and merged is the set of places <<row, column>> that lie in a merged    *)
(* range without being its top-left cell (openpyxl's MergedCell: its value *)
(* is None and cannot be assigned).  A file that neither pandas nor        *)
(* load_workbook can read is [ok |-> FALSE]; loads tells whether           *)
(* load_workbook, which unlike pandas' read-only reader parses the whole   *)
(* file, can read a file that pandas can.                                  *)
(***************************************************************************)

Unreadable == [ok |-> FALSE]
Workbook(sheets) == [ok |-> TRUE, sheets |-> sheets, loads |-> TRUE]
Sheet(title, ncols, rows) ==
    [title |-> title, ncols |-> ncols, rows |-> rows, merged |-> {}]

\* the value of cell (r, c), None where the grid has no cell
CellValue(ws, r, c) ==
    IF r <= Len(ws.rows) /\ c <= ws.ncols THEN ws.rows[r][c] ELSE None

\* [cell.value for cell in worksheet[1]]: an empty sheet has the one cell A1
header_row_values(ws) == IF ws.rows = <<>> THEN << None >> ELSE ws.rows[1]

\* header_index_map: a later cell with the same header replaces an earlier one
InHeaderIndexMap(hdr, name) == name # None /\ \E i \in 1..Len(hdr) : hdr[i] = name
HeaderIndex(hdr, name) ==
    CHOOSE i \in 1..Len(hdr) : hdr[i] = name /\ \A j \in 1..Len(hdr) : hdr[j] = name => j <= i

\* line 132 with the rows counted from the header row
CellRowAtHeader(row_idx_df) == row_idx_df + 1

\* line 132: the worksheet row of the DataFrame row row_idx_df (from 0)
CellRow(row_idx_df) == row_idx_df + 2

\* lines 130-132: worksheet.cell(row, column, value) for every value of one
\* column; openpyxl's cell() assigns the value only if it is not None
WriteColumn(ws, col_idx, values) ==
    LET last == IF values = <<>> THEN 0 ELSE CellRow(Len(values) - 1)
        target(r) == {i \in 1..Len(values) : CellRow(i - 1) = r}
    IN  [ws EXCEPT !.rows =
            [r \in 1..Max(Len(ws.rows), last) |->
                [c \in 1..ws.ncols |->
                    IF c = col_idx /\ target(r) # {}
                       /\ values[CHOOSE i \in target(r) : TRUE] # None
                    THEN values[CHOOSE i \in target(r) : TRUE]
                    ELSE CellValue(ws, r, c)]]]

\* lines 125-134: the columns of the DataFrame from place i on
RECURSIVE WriteColumns(_, _, _)
WriteColumns(ws, df, i) ==
    IF i > Len(df.columns) THEN ws
    ELSE LET hdr == header_row_values(ws)
             excel_col_header == df.columns[i]
         IN  IF InHeaderIndexMap(hdr, excel_col_header)
             THEN WriteColumns(WriteColumn(ws, HeaderIndex(hdr, excel_col_header), df.data[i]),
                               df, i + 1)
             ELSE WriteColumns(ws, df, i + 1)

\* lines 110-136 for one template sheet
WriteSheet(ws, data_frames_by_sheet) ==
    IF HasKey(data_frames_by_sheet, ws.title)
    THEN LET df_for_sheet == Get(data_frames_by_sheet, ws.title)
         IN  IF IsEmptyFrame(df_for_sheet) THEN ws
             ELSE WriteColumns(ws, df_for_sheet, 1)
    ELSE ws

\* line 132 raises for a column: a value that is not None goes to a
\* MergedCell, whose value is read-only
ColumnRaises(ws, col_idx, values) ==
    \E i \in 1..Len(values) :
        values[i] # None /\ << CellRow(i - 1), col_idx >> \in ws.merged

\* lines 110-136 raise for one template sheet; the header row is not written
\* to, so every column of the DataFrame meets the header map of the template
SheetRaises(ws, data_frames_by_sheet) ==
    /\ HasKey(data_frames_by_sheet, ws.title)
    /\ ~IsEmptyFrame(Get(data_frames_by_sheet, ws.title))
    /\ \E i \in 1..Len(Get(data_frames_by_sheet, ws.title).columns) :
           /\ InHeaderIndexMap(header_row_values(ws),
                               Get(data_frames_by_sheet, ws.title).columns[i])
           /\ ColumnRaises(ws,
                           HeaderIndex(header_row_values(ws),
                                       Get(data_frames_by_sheet, ws.title).columns[i]),
                           Get(data_frames_by_sheet, ws.title).data[i])

\* write_dataframes_to_excel: [err |-> TRUE] when load_workbook raises or a
\* cell write raises (workbook.save, the last statement, is then not
\* reached), else the workbook saved at output_path
write_dataframes_to_excel(excel_template_file, data_frames_by_sheet) ==
    IF ~excel_template_file.ok \/ ~excel_template_file.loads THEN [err |-> TRUE]
    ELSE IF \E i \in 1..Len(excel_template_file.sheets) :
                SheetRaises(excel_template_file.sheets[i], data_frames_by_sheet)
    THEN [err |-> TRUE]
    ELSE [err |-> FALSE,
          saved |-> Workbook([i \in 1..Len(excel_template_file.sheets) |->
                        WriteSheet(excel_template_file.sheets[i], data_frames_by_sheet)])]

(***************************************************************************)
(* app.py: the Generate Excel pipeline                                     *)
(***************************************************************************)

\* lines 206-216: the mappings from place i on, folded into
\* mappings_by_source_id (source id -> sheet -> column -> path)
RECURSIVE MappingsBySource(_, _, _)
MappingsBySource(current_mappings, i, acc) ==
    IF i > Len(current_mappings) THEN acc
    ELSE LET m_item == current_mappings[i]
         IN  IF HasChar(m_item.excel, "/")
             THEN LET sc == SplitSlash(m_item.excel)
                      src == m_item.xml_source_id
                      bySheet == IF HasKey(acc, src) THEN Get(acc, src) ELSE <<>>
                      byCol == IF HasKey(bySheet, sc[1]) THEN Get(bySheet, sc[1]) ELSE <<>>
                  IN  MappingsBySource(current_mappings, i + 1,
                          Put(acc, src, Put(bySheet, sc[1], Put(byCol, sc[2], m_item.xml_path))))
             ELSE MappingsBySource(current_mappings, i + 1, acc)

\* the sources that have mappings, in xml_sources_data order
Contributing(sources, by_source) ==
    Filter(sources, {x \in Range(sources) : HasKey(by_source, x.id)})

\* lines 231-234 and 243-246: one source's extraction
ExtractSource(xml_s_data, by_source) ==
    extract_data_from_one_xml(xml_s_data.file, Get(by_source, xml_s_data.id))

\* lines 235-236: max_rows_per_sheet after one source's sheets from place i on
RECURSIVE MaxRowsOneSource(_, _, _)
MaxRowsOneSource(data, i, max_rows) ==
    IF i > Len(data) THEN max_rows
    ELSE MaxRowsOneSource(data, i + 1,
             Put(max_rows, data[i][1],
                 Max(IF HasKey(max_rows, data[i][1]) THEN Get(max_rows, data[i][1]) ELSE 0,
                     data[i][2].nrows)))

\* Step 1 (lines 226-236) over the extractions of the contributing sources
\* from place i on
RECURSIVE MaxRowsPerSheet(_, _, _)
MaxRowsPerSheet(extracted, i, max_rows) ==
    IF i > Len(extracted) THEN max_rows
    ELSE MaxRowsPerSheet(extracted, i + 1,
             MaxRowsOneSource(extracted[i].data, 1, max_rows))

\* lines 248-259 without the reindex
ReindexOneSourceKeeps(data, max_rows_per_sheet) == data

\* lines 248-259: one source's DataFrames brought to the sheet's row count
ReindexOneSource(data, max_rows_per_sheet) ==
    [i \in 1..Len(data) |->
        LET sheet_name == data[i][1]
            df_original == data[i][2]
        IN  IF HasKey(max_rows_per_sheet, sheet_name)
            THEN LET target_rows == Get(max_rows_per_sheet, sheet_name)
                 IN  IF df_original.nrows < target_rows
                     THEN << sheet_name, Reindex(df_original, target_rows) >>
                     ELSE << sheet_name, df_original >>
            ELSE << sheet_name, df_original >>]

\* df[col] = series, whether df has the column or not
SetColumn(df, col, series) ==
    IF HasColumn(df, col)
    THEN [df EXCEPT !.data = [k \in 1..Len(df.data) |->
             IF df.columns[k] = col
             THEN [r \in 1..df.nrows |-> IF r <= Len(series) THEN series[r] ELSE NaN]
             ELSE df.data[k]]]
    ELSE AssignColumn(df, col, series)

\* lines 270-272 without the test of line 271: a later source overwrites
RECURSIVE MergeColumnsOverwrites(_, _, _)
MergeColumnsOverwrites(df_existing, df_from_current_source, i) ==
    IF i > Len(df_from_current_source.columns) THEN df_existing
    ELSE MergeColumnsOverwrites(
             SetColumn(df_existing, df_from_current_source.columns[i],
                       df_from_current_source.data[i]),
             df_from_current_source, i + 1)

\* lines 270-272: the columns of df_from_current_source from place i on
RECURSIVE MergeColumns(_, _, _)
MergeColumns(df_existing, df_from_current_source, i) ==
    IF i > Len(df_from_current_source.columns) THEN df_existing
    ELSE LET col_to_add == df_from_current_source.columns[i]
         IN  IF ~HasColumn(df_existing, col_to_add)
             THEN MergeColumns(AssignColumn(df_existing, col_to_add,
                                   df_from_current_source.data[i]),
                               df_from_current_source, i + 1)
             ELSE MergeColumns(df_existing, df_from_current_source, i + 1)

\* lines 265-273: one source's sheets from place i on
RECURSIVE MergeOneSource(_, _, _)
MergeOneSource(final, data_from_one_source, i) ==
    IF i > Len(data_from_one_source) THEN final
    ELSE LET sheet_name == data_from_one_source[i][1]
             df == data_from_one_source[i][2]
         IN  MergeOneSource(
                 IF ~HasKey(final, sheet_name) THEN Put(final, sheet_name, df)
                 ELSE Put(final, sheet_name, MergeColumns(Get(final, sheet_name), df, 1)),
                 data_from_one_source, i + 1)

\* Step 3 (lines 263-273) over all_extracted_data_by_sheet_and_source
RECURSIVE MergeAll(_, _, _)
MergeAll(all_extracted, i, final) ==
    IF i > Len(all_extracted) THEN final
    ELSE MergeAll(all_extracted, i + 1, MergeOneSource(final, all_extracted[i], 1))

\* Steps 2 and 3 (lines 239-273) given the sources' extractions and Step 1's
\* max_rows_per_sheet; the second extraction of a source gives what the
\* first gave
ReindexAndMerge(by_source, srcs, extracted, max_rows) ==
    Let([i \in 1..Len(srcs) |-> ReindexOneSource(extracted[i].data, max_rows)],
        LAMBDA all_extracted :
            [err |-> FALSE,
             mappings_by_source_id |-> by_source,
             source_ids |-> [i \in 1..Len(srcs) |-> srcs[i].id],
             max_rows_per_sheet |-> max_rows,
             all_extracted |-> all_extracted,
             final |-> MergeAll(all_extracted, 1, <<>>)])

\* lines 218-273, given mappings_by_source_id: [err |-> TRUE, ...] when an
\* extraction raises, else what the three steps computed
PipelineFrom(sources, by_source) ==
    Let(Contributing(sources, by_source), LAMBDA srcs :
        Let([i \in 1..Len(srcs) |-> ExtractSource(srcs[i], by_source)], LAMBDA extracted :
            IF \E i \in 1..Len(srcs) : extracted[i].err
            THEN [err |-> TRUE, mappings_by_source_id |-> by_source]
            ELSE ReindexAndMerge(by_source, srcs, extracted,
                                 MaxRowsPerSheet(extracted, 1, <<>>))))

(***************************************************************************)
(* utils.py: extract_excel_columns, with the header names as               *)
(* pd.read_excel gives them: an empty header cell i (from 0) is            *)
(* "Unnamed: i" and the k-th repeat of a name is "name.k".                 *)
(***************************************************************************)

Digit(n) == CASE n = 0 -> "0" [] n = 1 -> "1" [] OTHER -> "2"

ReadExcelColumns(ws) ==
    IF ws.rows = <<>> THEN <<>>
    ELSE [i \in 1..ws.ncols |->
            LET h == ws.rows[1][i]
                k == Cardinality({j \in 1..(i - 1) : ws.rows[1][j] = h})
            IN  IF h = None THEN <<"U", "n", "n", "a", "m", "e", "d", ":", " ", Digit(i - 1)>>
                ELSE IF k = 0 THEN h
                ELSE h \o <<".", Digit(k)>>]

\* extract_excel_columns: the dict sheet -> column names; {} on any exception
extract_excel_columns(file) ==
    IF ~file.ok THEN <<>>
    ELSE [i \in 1..Len(file.sheets) |->
             << file.sheets[i].title, ReadExcelColumns(file.sheets[i]) >>]

\* line 62: [f"{sheet}/{col}" for sheet, cols in excel_data.items() for col in cols]
FlatColumns(excel_data) ==
    Concat([i \in 1..Len(excel_data) |->
               [j \in 1..Len(excel_data[i][2]) |->
                   excel_data[i][1] \o <<"/">> \o excel_data[i][2][j]]])

(***************************************************************************)
(* The session (st.session_state) and the files                            *)
(***************************************************************************)

VARIABLES
    last_excel_file_id,                 \* 0 for None
    excel_temp_file,                    \* the file at excel_temp_path
    flat_excel_columns,
    mappings,                           \* list of [excel, xml_path, xml_source_id]
    xml_sources_data,                   \* list of [id, file, tags, file_id]
    processed_xml_file_ids,
    next_xml_internal_id_counter,
    active_xml_source_id_for_mapping,   \* 0 for None
    output_excel_path,                  \* TRUE when set to 'data/output_filled.xlsx'
    output_file_exists,                 \* a file is at data/output_filled.xlsx
    shown                               \* what the run of the script that led here showed

vars == << last_excel_file_id, excel_temp_file, flat_excel_columns, mappings,
           xml_sources_data, processed_xml_file_ids, next_xml_internal_id_counter,
           active_xml_source_id_for_mapping, output_excel_path,
           output_file_exists, shown >>

\* shown is the outcome of the handler that ran in the script run that led to
\* the state: the message it showed (st.success, st.error, st.warning) and,
\* for Generate Excel, what the pipeline computed (context), the merged
\* tables it handed to the writer (final) and the workbook it saved (saved).
\* Streamlit draws the page anew on every run, so every run replaces it.
\* Nothing but the Generate Excel handler, right after saving, reads the saved
\* file (lines 280-283), so its content is kept here and output_file_exists
\* keeps only that a file is on the disk.
NothingShown == [status |-> "none"]

\* lines 16-32.  mappings starts as None in the code; it is read only behind
\* "flat_excel_columns and xml_sources_data" (line 102), and line 65 has made
\* it a list by then, so None and [] are not told apart here.
Init ==
    /\ last_excel_file_id = 0
    /\ excel_temp_file = Unreadable
    /\ flat_excel_columns = <<>>
    /\ mappings = <<>>
    /\ xml_sources_data = <<>>
    /\ processed_xml_file_ids = {}
    /\ next_xml_internal_id_counter = 1
    /\ active_xml_source_id_for_mapping = 0
    /\ output_excel_path = FALSE
    /\ output_file_exists = FALSE
    /\ shown = NothingShown

\* line 102: the mapping interface is drawn
InterfaceShown == flat_excel_columns # <<>> /\ xml_sources_data # <<>>

SourceIds == {xml_sources_data[i].id : i \in 1..Len(xml_sources_data)}
SourceById(id) ==
    xml_sources_data[CHOOSE i \in 1..Len(xml_sources_data) : xml_sources_data[i].id = id]

\* lines 129-133
active_xml_tags == SourceById(active_xml_source_id_for_mapping).tags

\* lines 45-67: a new Excel file is in the uploader
UploadExcel(file, file_id) ==
    /\ file_id # last_excel_file_id
    /\ last_excel_file_id' = file_id
    /\ excel_temp_file' = file
    /\ flat_excel_columns' = FlatColumns(extract_excel_columns(file))
    /\ mappings' = <<>>
    /\ output_excel_path' = FALSE
    /\ shown' = [status |-> "excel processed"]
    /\ UNCHANGED << xml_sources_data, processed_xml_file_ids,
                    next_xml_internal_id_counter, active_xml_source_id_for_mapping,
                    output_file_exists >>

\* lines 71-94: a new XML file is in the uploader, beside an Excel file
UploadXml(file) ==
    /\ last_excel_file_id # 0
    /\ LET file_id == Cardinality(processed_xml_file_ids) + 1
       IN  /\ xml_sources_data' = Append(xml_sources_data,
                  [id |-> next_xml_internal_id_counter,
                   file |-> file,
                   tags |-> extract_xml_tags(file),
                   file_id |-> file_id])
           /\ processed_xml_file_ids' = processed_xml_file_ids \cup {file_id}
    /\ next_xml_internal_id_counter' = next_xml_internal_id_counter + 1
    /\ active_xml_source_id_for_mapping' =
           IF active_xml_source_id_for_mapping = 0
           THEN xml_sources_data'[1].id
           ELSE active_xml_source_id_for_mapping
    /\ shown' = NothingShown
    /\ UNCHANGED << last_excel_file_id, excel_temp_file, flat_excel_columns, mappings,
                    output_excel_path, output_file_exists >>

\* lines 118-126: the radio selects a source
SelectSource(id) ==
    /\ InterfaceShown
    /\ id \in SourceIds
    /\ id # active_xml_source_id_for_mapping
    /\ active_xml_source_id_for_mapping' = id
    /\ shown' = NothingShown
    /\ UNCHANGED << last_excel_file_id, excel_temp_file, flat_excel_columns, mappings,
                    xml_sources_data, processed_xml_file_ids,
                    next_xml_internal_id_counter, output_excel_path, output_file_exists >>

\* lines 158-174 without the search for an existing mapping
AddedMappingAlwaysAppends(ms, selected_excel, selected_xml_tag, source_id) ==
    Append(ms, [excel |-> selected_excel,
                xml_path |-> selected_xml_tag,
                xml_source_id |-> source_id])

\* lines 158-174 with line 160 looking for a mapping of the selected column
\* from the active source only
AddedMappingPerSource(ms, selected_excel, selected_xml_tag, source_id) ==
    IF \E i \in 1..Len(ms) : ms[i].excel = selected_excel /\ ms[i].xml_source_id = source_id
    THEN LET i == CHOOSE i \in 1..Len(ms) :
                      /\ ms[i].excel = selected_excel
                      /\ ms[i].xml_source_id = source_id
         IN  [ms EXCEPT ![i] = [excel |-> selected_excel,
                                xml_path |-> selected_xml_tag,
                                xml_source_id |-> source_id]]
    ELSE Append(ms, [excel |-> selected_excel,
                     xml_path |-> selected_xml_tag,
                     xml_source_id |-> source_id])

\* lines 158-174: the list after Add Mapping
AddedMapping(ms, selected_excel, selected_xml_tag, source_id) ==
    IF \E i \in 1..Len(ms) : ms[i].excel = selected_excel
    THEN LET i == CHOOSE i \in 1..Len(ms) :
                      /\ ms[i].excel = selected_excel
                      /\ \A j \in 1..(i - 1) : ms[j].excel # selected_excel
         IN  [ms EXCEPT ![i] = [excel |-> selected_excel,
                                xml_path |-> selected_xml_tag,
                                xml_source_id |-> source_id]]
    ELSE Append(ms, [excel |-> selected_excel,
                     xml_path |-> selected_xml_tag,
                     xml_source_id |-> source_id])

\* st.selectbox over the active source's tags: None when there are none
SelectableTags == IF active_xml_tags = <<>> THEN {None} ELSE Range(active_xml_tags)

\* lines 156-175: the Add Mapping button
AddMapping(selected_excel, selected_xml_tag) ==
    /\ InterfaceShown
    /\ selected_excel \in Range(flat_excel_columns)
    /\ selected_xml_tag \in SelectableTags
    /\ mappings' = AddedMapping(mappings, selected_excel, selected_xml_tag,
                                active_xml_source_id_for_mapping)
    /\ shown' = IF \E i \in 1..Len(mappings) : mappings[i].excel = selected_excel
                THEN [status |-> "updated"] ELSE [status |-> "added"]
    /\ UNCHANGED << last_excel_file_id, excel_temp_file, flat_excel_columns,
                    xml_sources_data, processed_xml_file_ids,
                    next_xml_internal_id_counter, active_xml_source_id_for_mapping,
                    output_excel_path, output_file_exists >>

\* lines 193-197: the Remove Last Mapping button, drawn when there are mappings
RemoveLastMapping ==
    /\ InterfaceShown
    /\ mappings # <<>>
    /\ mappings' = SubSeq(mappings, 1, Len(mappings) - 1)
    /\ shown' = NothingShown          \* st.rerun() follows the message
    /\ UNCHANGED << last_excel_file_id, excel_temp_file, flat_excel_columns,
                    xml_sources_data, processed_xml_file_ids,
                    next_xml_internal_id_counter, active_xml_source_id_for_mapping,
                    output_excel_path, output_file_exists >>

\* lines 275-294 with line 276 (the output path is kept) before line 275
WriteTemplateMarksPath(final_data_to_write_by_sheet, context) ==
    \E written \in {write_dataframes_to_excel(excel_temp_file,
                                               final_data_to_write_by_sheet)} :
        IF written.err
        THEN /\ shown' = [status |-> "error", context |-> context]
             /\ output_excel_path' = TRUE
             /\ UNCHANGED output_file_exists
        ELSE /\ shown' = [status |-> "success", context |-> context,
                          final |-> final_data_to_write_by_sheet,
                          saved |-> written.saved]
             /\ output_excel_path' = TRUE
             /\ output_file_exists' = TRUE

\* lines 275-294: write_dataframes_to_excel on the template of the session
\* and what the run shows after it; context is what the run computed before
WriteTemplate(final_data_to_write_by_sheet, context) ==
    \E written \in {write_dataframes_to_excel(excel_temp_file,
                                               final_data_to_write_by_sheet)} :
        IF written.err
        THEN /\ shown' = [status |-> "error", context |-> context]
             /\ UNCHANGED << output_excel_path, output_file_exists >>
        ELSE /\ shown' = [status |-> "success", context |-> context,
                          final |-> final_data_to_write_by_sheet,
                          saved |-> written.saved]
             /\ output_excel_path' = TRUE
             /\ output_file_exists' = TRUE

\* lines 218-294: the handler from mappings_by_source_id on
GenerateFrom(mappings_by_source_id) ==
    /\ \E run \in {PipelineFrom(xml_sources_data, mappings_by_source_id)} :
           IF run.err
           THEN /\ shown' = [status |-> "error", context |-> run]
                /\ UNCHANGED << output_excel_path, output_file_exists >>
           ELSE WriteTemplate(run.final, run)
    /\ UNCHANGED << last_excel_file_id, excel_temp_file, flat_excel_columns, mappings,
                    xml_sources_data, processed_xml_file_ids,
                    next_xml_internal_id_counter, active_xml_source_id_for_mapping >>

\* lines 200-296: the Generate Excel button
GenerateExcel ==
    /\ InterfaceShown
    /\ IF mappings # <<>>
       THEN GenerateFrom(MappingsBySource(mappings, 1, <<>>))
       ELSE /\ shown' = [status |-> "warning"]
            /\ UNCHANGED << output_excel_path, output_file_exists,
                            last_excel_file_id, excel_temp_file, flat_excel_columns,
                            mappings, xml_sources_data, processed_xml_file_ids,
                            next_xml_internal_id_counter,
                            active_xml_source_id_for_mapping >>

(***************************************************************************)
(* The files of the model                                                  *)
(***************************************************************************)

Leaf(tag, text) == Elem(tag, text, <<>>, <<>>)

\* <a><b><n>x</n><e>y</e></b><b><n>y</n></b></a>
DocPeople ==
    Doc(Elem(<<"a">>, None, <<>>,
        << Elem(<<"b">>, None, <<>>, << Leaf(<<"n">>, <<"x">>), Leaf(<<"e">>, <<"y">>) >>),
           Elem(<<"b">>, None, <<>>, << Leaf(<<"n">>, <<"y">>) >>) >>))

\* <a><c k="y">x</c><c>y</c><c> </c></a>
DocCities ==
    Doc(Elem(<<"a">>, None, <<>>,
        << Elem(<<"c">>, <<"x">>, << << <<"k">>, <<"y">> >> >>, <<>>),
           Leaf(<<"c">>, <<"y">>),
           Leaf(<<"c">>, <<" ">>) >>))

\* <a><b/></a>: no text and no attribute anywhere
DocBare == Doc(Elem(<<"a">>, None, <<>>, << Leaf(<<"b">>, None) >>))

XmlFiles == {DocCities, DocBare, Malformed}

\* sheet S: headers N, A and a filled row below them; sheet T: header N/A
TplData ==
    Workbook(<< Sheet(<<"S">>, 2, << << <<"N">>, <<"A">> >>, << <<"d">>, <<"d">> >>,
                                    << <<"d">>, <<"d">> >>, << <<"d">>, <<"d">> >> >>),
                Sheet(<<"T">>, 1, << << <<"N", "/", "A">> >> >>) >>)

\* sheet S: headers N, N/A and a filled row below them
TplSlash ==
    Workbook(<< Sheet(<<"S">>, 2, << << <<"N">>, <<"N", "/", "A">> >>,
                                    << <<"d">>, <<"d">> >> >>) >>)

\* sheet S: headers N, (empty), N and a filled row below them
TplRepeat ==
    Workbook(<< Sheet(<<"S">>, 3, << << <<"N">>, None, <<"N">> >>,
                                    << <<"d">>, <<"d">>, <<"d">> >> >>) >>)

ExcelFiles == {TplSlash, Unreadable}

\* sheet S: headers N, A; A2:A3 is a merged range, so A3 is a MergedCell
TplMerged ==
    Workbook(<< [Sheet(<<"S">>, 2, << << <<"N">>, <<"A">> >>, << <<"d">>, <<"d">> >>,
                                     << None, <<"d">> >> >>)
                    EXCEPT !.merged = {<< 3, 1 >>}] >>)

\* sheet S: headers N, A; pandas reads the headers, load_workbook raises
TplHalf ==
    [Workbook(<< Sheet(<<"S">>, 2, << << <<"N">>, <<"A">> >>, << <<"d">>, <<"d">> >> >>) >>)
        EXCEPT !.loads = FALSE]

(***************************************************************************)
(* The application: any order of uploads and button presses                *)
(***************************************************************************)

\* the file ids the uploader gives to Excel files
ExcelFileIds == {1, 2}

MaxSources == 2

Next ==
    \/ \E file \in ExcelFiles, file_id \in ExcelFileIds : UploadExcel(file, file_id)
    \/ \E file \in XmlFiles :
           Len(xml_sources_data) < MaxSources /\ UploadXml(file)
    \/ \E id \in SourceIds : SelectSource(id)
    \/ /\ InterfaceShown
       /\ \E selected_excel \in Range(flat_excel_columns), selected_xml_tag \in SelectableTags :
              AddMapping(selected_excel, selected_xml_tag)
    \/ RemoveLastMapping
    \/ GenerateExcel

Spec == Init /\ [][Next]_vars

(***************************************************************************)
(* Sessions given outright: the state the script is in after the uploads   *)
(* and mappings named, for the specifications that exercise one handler    *)
(* or one function on every input of a bounded set.                        *)
(***************************************************************************)

SeqsUpTo(S, n) == UNION {[1..k -> S] : k \in 0..n}

SessionSources(files) ==
    [i \in 1..Len(files) |->
        [id |-> i, file |-> files[i], tags |-> extract_xml_tags(files[i]), file_id |-> i]]

InitSession(template, files, ms) ==
    /\ last_excel_file_id = 1
    /\ excel_temp_file = template
    /\ flat_excel_columns = FlatColumns(extract_excel_columns(template))
    /\ mappings = ms
    /\ xml_sources_data = SessionSources(files)
    /\ processed_xml_file_ids = 1..Len(files)
    /\ next_xml_internal_id_counter = Len(files) + 1
    /\ active_xml_source_id_for_mapping = IF files = <<>> THEN 0 ELSE 1
    /\ output_excel_path = FALSE
    /\ output_file_exists = FALSE
    /\ shown = NothingShown

\* The mapping list that gives, for source i and target j, the choice[i][j]-th
\* of the source's candidate paths (0: the target is not mapped from it), in
\* the order the mappings were added: source by source, or the reverse.
MappingList(targets, cands, choice, reversed) ==
    LET n == Len(cands)
        one(i, j) == IF choice[i][j] = 0 THEN <<>>
                     ELSE << [excel |-> targets[j],
                              xml_path |-> cands[i][choice[i][j]],
                              xml_source_id |-> i] >>
        ms == Concat([i \in 1..n |-> Concat([j \in 1..Len(targets) |-> one(i, j)])])
    IN  IF reversed THEN [k \in 1..Len(ms) |-> ms[Len(ms) + 1 - k]] ELSE ms

\* every choice of paths that stays within each source's candidates
Choices(targets, cands) ==
    LET most == CHOOSE m \in 0..Len(Alphabet) :
                    /\ \A i \in 1..Len(cands) : Len(cands[i]) <= m
                    /\ \E i \in 1..Len(cands) : Len(cands[i]) = m
    IN  {c \in [1..Len(cands) -> [1..Len(targets) -> 0..most]] :
            \A i \in 1..Len(cands) : \A j \in 1..Len(targets) : c[i][j] <= Len(cands[i])}

\* the column -> path dicts of one sheet over the paths: column N, column A,
\* or both in either order of insertion
ColumnDicts(paths) ==
    {<< << <<"N">>, p >> >> : p \in paths}
    \cup {<< << <<"A">>, p >> >> : p \in paths}
    \cup {<< << <<"N">>, p >>, << <<"A">>, q >> >> : p \in paths, q \in paths}
    \cup {<< << <<"A">>, q >>, << <<"N">>, p >> >> : p \in paths, q \in paths}

\* the same with N and A on different paths
ColumnDictsApart(paths) == {d \in ColumnDicts(paths) : Len(d) = 2 => d[1][2] # d[2][2]}

\* mappings_by_source_id for sheet S from one column dict per source (<<>>:
\* the source has no mapping), the sources in the order given
BySource(order, dicts) ==
    Concat([k \in 1..Len(order) |->
        IF dicts[order[k]] = <<>> THEN <<>>
        ELSE << << order[k], << << <<"S">>, dicts[order[k]] >> >> >> >>])

\* what st.selectbox offers for a source: its tags, or None when it has none
TagsOrNone(file) ==
    IF extract_xml_tags(file) = <<>> THEN << None >> ELSE extract_xml_tags(file)

(***************************************************************************)
(* Path Extractor on every tree of a bounded shape: one upload             *)
(***************************************************************************)

MaxChildren == 2

TreeTags == {<<"a">>, <<"b">>}
TreeTexts == {None, <<" ">>, <<" ", "x">>}
TreeAttribs == {<<>>, << << <<"k">>, <<"x">> >> >>,
                << << <<"m">>, <<"y">> >>, << <<"k">>, <<"x">> >> >>}

TreeLeaves ==
    {Elem(t, x[1], x[2], <<>>) :
        t \in TreeTags,
        x \in {<< None, <<>> >>, << <<" ">>, << << <<"k">>, <<"y">> >> >> >>,
               << <<"x">>, <<>> >>, << <<"x">>, << << <<"k">>, <<"x">> >> >> >>}}
\* an element with text and a child of its own tag
TreeInner == Elem(<<"a">>, <<"x">>, <<>>, << Leaf(<<"a">>, <<"y">>) >>)

InitPaths == InitSession(TplSlash, <<>>, <<>>)

NextPaths ==
    \/ \E t \in TreeTags, x \in TreeTexts, at \in TreeAttribs,
          kids \in SeqsUpTo(TreeLeaves \cup {TreeInner}, MaxChildren) :
           xml_sources_data = <<>> /\ UploadXml(Doc(Elem(t, x, at, kids)))
    \/ xml_sources_data = <<>> /\ UploadXml(Malformed)

SpecPaths == InitPaths /\ [][NextPaths]_vars

(***************************************************************************)
(* Value Extractor on every tree of a bounded shape: one document is       *)
(* uploaded beside the template, and one export maps columns N and A of    *)
(* sheet S to its paths.                                                   *)
(***************************************************************************)

MaxKids == 3

ExtractLeaves ==
    {Leaf(<<"b">>, <<"x">>),
     Elem(<<"b">>, <<"y">>, << << <<"k">>, <<"x">> >> >>, <<>>),
     Leaf(<<"c">>, <<"x">>),
     Elem(<<"c">>, None, << << <<"m">>, <<"y">> >> >>, <<>>)}

ExtractDocs ==
    {Doc(Elem(<<"a">>, None, <<>>, kids)) : kids \in SeqsUpTo(ExtractLeaves, MaxKids)}

\* the attribute paths of the exports, with the child tag and the attribute
\* each of them names
ExtractAttrPaths ==
    {[path |-> <<"a", "/", t, "/", "@", at>>, tag |-> <<t>>, attr |-> <<at>>] :
        t \in {"b", "c"}, at \in {"k"}}

ExtractPaths ==
    {<<"a", "/", "b">>, <<"a", "/", "c">>} \cup {ap.path : ap \in ExtractAttrPaths}

ExtractMappings == ColumnDicts(ExtractPaths)

InitExtract == \E file \in ExtractDocs : InitSession(TplData, << file >>, <<>>)

NextExtract ==
    /\ shown = NothingShown
    /\ \E m \in ExtractMappings : GenerateFrom(<< << 1, << << <<"S">>, m >> >> >> >>)

SpecExtract == InitExtract /\ [][NextExtract]_vars

(***************************************************************************)
(* Extraction and merge over several documents: the documents are uploaded *)
(* beside the template, and one export maps columns N and A of sheet S,    *)
(* from any of the documents, to the paths of that document.                *)
(***************************************************************************)

MergeFiles == {DocPeople, DocCities}

InitMerge ==
    \E files \in SeqsUpTo(MergeFiles, MaxSources) \ {<<>>} : InitSession(TplData, files, <<>>)

\* every source is given a column dict over its own tags, or none; the
\* sources were first mapped in registration order or in the reverse of it
MergeInputs ==
    LET n == Len(xml_sources_data)
        up == [k \in 1..n |-> k]
        down == [k \in 1..n |-> n + 1 - k]
    IN  {BySource(order, dicts) :
            order \in {up, down},
            dicts \in {d \in [1..n -> UNION {ColumnDictsApart(Range(xml_sources_data[i].tags))
                                                : i \in 1..n} \cup {<<>>}] :
                          \A i \in 1..n :
                              d[i] \in ColumnDictsApart(Range(xml_sources_data[i].tags))
                                           \cup {<<>>}}}

NextMerge ==
    /\ shown = NothingShown
    /\ \E by_source \in MergeInputs : GenerateFrom(by_source)

SpecMerge == InitMerge /\ [][NextMerge]_vars

(***************************************************************************)
(* Exports with documents and paths that fail: the documents are uploaded  *)
(* beside the template, and one export maps column N of sheet S, and       *)
(* perhaps column A, from any of the documents.                            *)
(***************************************************************************)

IsolationFiles == {DocCities, DocBare, Malformed}

\* what the selectbox gives for the document, an absolute path (findall
\* rejects it) and a path of tags
IsolationPaths(file) ==
    Range(TagsOrNone(file)) \cup {<<"/", "a">>, <<"a", "/", "c">>}

IsolationDicts(file) ==
    {<< << <<"N">>, p >> >> : p \in IsolationPaths(file)}
    \cup {<< << <<"N">>, p >>, << <<"A">>, <<"a", "/", "c">> >> >> : p \in IsolationPaths(file)}

InitIsolation ==
    \E files \in SeqsUpTo(IsolationFiles, MaxSources) \ {<<>>} :
        InitSession(TplData, files, <<>>)

IsolationInputs ==
    LET n == Len(xml_sources_data)
    IN  {BySource([k \in 1..n |-> k], dicts) :
            dicts \in {d \in [1..n -> UNION {IsolationDicts(xml_sources_data[i].file)
                                                : i \in 1..n} \cup {<<>>}] :
                          \A i \in 1..n :
                              d[i] \in IsolationDicts(xml_sources_data[i].file) \cup {<<>>}}}

NextIsolation ==
    /\ shown = NothingShown
    /\ \E by_source \in IsolationInputs : GenerateFrom(by_source)

SpecIsolation == InitIsolation /\ [][NextIsolation]_vars

(***************************************************************************)
(* Template Writer on every merged table of a bounded shape: a template is *)
(* uploaded and the writer is given tables for sheet S, for a sheet X the  *)
(* templates do not have, or for both.                                     *)
(***************************************************************************)

MaxRows == 2

WriterTemplates == {TplData, TplRepeat}

WriterValues == {<<"x">>, None, NaN}

\* column lists: a header of the templates, one beside a name that is no
\* header, and two headers of TplData
WriterColumns == {<< <<"N">> >>, << <<"Z">>, <<"N">> >>, << <<"N">>, <<"A">> >>}

WriterFrames ==
    {EmptyFrame} \cup
    UNION {{[columns |-> cols, data |-> data, nrows |-> n] :
               data \in [1..Len(cols) -> [1..n -> WriterValues]]} :
           cols \in WriterColumns, n \in 0..MaxRows}

WriterTables ==
    {<<>>}
    \cup {<< << <<"S">>, df >> >> : df \in WriterFrames}
    \cup {<< << <<"X">>, df >> >> : df \in WriterFrames}
    \cup {<< << <<"X">>, FrameOf(<< << <<"N">>, << <<"x">> >> >> >>, 1) >>,
             << <<"S">>, df >> >> : df \in WriterFrames}

InitWriter == \E template \in WriterTemplates : InitSession(template, <<>>, <<>>)

NextWriter ==
    /\ shown = NothingShown
    /\ \E tables \in WriterTables : WriteTemplate(tables, [step |-> "write"])
    /\ UNCHANGED << last_excel_file_id, excel_temp_file, flat_excel_columns, mappings,
                    xml_sources_data, processed_xml_file_ids,
                    next_xml_internal_id_counter, active_xml_source_id_for_mapping >>

SpecWriter == InitWriter /\ [][NextWriter]_vars

(***************************************************************************)
(* Round trip of the two extractors on every tree of a bounded shape: one  *)
(* document is uploaded beside the template, and one export maps column N  *)
(* of sheet S, alone, to one of the paths registered for the document.     *)
(***************************************************************************)

\* the tag ET.parse gives an element a in the namespace x@y
\* (<a xmlns="x@y">)
NsA == <<"{", "x", "@", "y", "}", "a">>

RoundTripTags == {<<"a">>, NsA}

\* children: a leaf with the root's tag, a leaf with an attribute, an element
\* holding a leaf with the root's tag, and two elements in the namespace
RoundTripKids ==
    {Leaf(<<"a">>, <<"x">>),
     Elem(<<"b">>, <<"y">>, << << <<"k">>, <<"x">> >> >>, <<>>),
     Elem(<<"b">>, None, <<>>, << Leaf(<<"a">>, <<"x">>) >>),
     Leaf(NsA, <<"x">>),
     Elem(NsA, None, << << <<"k">>, <<"y">> >> >>, <<>>)}

RoundTripDocs ==
    {Doc(Elem(t, x, at, kids)) :
        t \in RoundTripTags,
        x \in {None, <<"x">>},
        at \in {<<>>, << << <<"k">>, <<"x">> >> >>},
        kids \in SeqsUpTo(RoundTripKids, MaxChildren)}

InitRoundTrip == \E file \in RoundTripDocs : InitSession(TplData, << file >>, <<>>)

NextRoundTrip ==
    /\ shown = NothingShown
    /\ \E p \in Range(xml_sources_data[1].tags) :
           GenerateFrom(<< << 1, << << <<"S">>, << << <<"N">>, p >> >> >> >> >> >>)

SpecRoundTrip == InitRoundTrip /\ [][NextRoundTrip]_vars

(***************************************************************************)
(* Exports the Template Writer fails: a document is uploaded beside a      *)
(* template with a merged cell below a header, or beside one that          *)
(* load_workbook cannot read; the template is changed and mappings are     *)
(* added, removed and exported in any order.                               *)
(***************************************************************************)

NoPartialTemplates == {TplMerged, TplHalf}

InitNoPartial ==
    \E template \in NoPartialTemplates : InitSession(template, << DocCities >>, <<>>)

NextNoPartial ==
    \/ \E file \in NoPartialTemplates, file_id \in ExcelFileIds : UploadExcel(file, file_id)
    \/ \E selected_excel \in Range(flat_excel_columns), selected_xml_tag \in SelectableTags :
           AddMapping(selected_excel, selected_xml_tag)
    \/ RemoveLastMapping
    \/ GenerateExcel

SpecNoPartial == InitNoPartial /\ [][NextNoPartial]_vars

(***************************************************************************)
(* Claims                                                                  *)
(***************************************************************************)

\* the (sheet, column) a mapping targets, as Generate Excel reads it (line 209)
Target(m) == SplitSlash(m.excel)

AtMostOnePerTarget ==
    \A i, j \in 1..Len(mappings) : Target(mappings[i]) = Target(mappings[j]) => i = j

\* C9: after every step of the application (template upload or change, XML
\* upload, source selection, Add Mapping, Remove Last Mapping, Generate
\* Excel) the mapping list holds at most one mapping per (sheet, column);
\* and Add Mapping for a target that is already mapped keeps the length of
\* the list and leaves that target with the path and the source document
\* just assigned, while for a new target it adds one entry.
C9_MappingUpsert ==
    [][ /\ AtMostOnePerTarget'
        /\ InterfaceShown =>
             \A selected_excel \in Range(flat_excel_columns),
                selected_xml_tag \in SelectableTags :
                 AddMapping(selected_excel, selected_xml_tag) =>
                     LET mapped == \E i \in 1..Len(mappings) :
                                       Target(mappings[i]) = SplitSlash(selected_excel)
                     IN  /\ Len(mappings') = IF mapped THEN Len(mappings)
                                             ELSE Len(mappings) + 1
                         /\ \E i \in 1..Len(mappings') :
                                /\ Target(mappings'[i]) = SplitSlash(selected_excel)
                                /\ mappings'[i].xml_path = selected_xml_tag
                                /\ mappings'[i].xml_source_id =
                                       active_xml_source_id_for_mapping
                         /\ \A i \in 1..Len(mappings) :
                                Target(mappings[i]) # SplitSlash(selected_excel)
                                    => mappings'[i] = mappings[i]
      ]_vars

\* C9 witness: a mapping was just replaced, the list holds two mappings, and
\* the first of them now belongs to the second source document
C9_Witness ==
    /\ shown.status = "updated"
    /\ Len(mappings) = 2
    /\ mappings[1].xml_source_id = 2
    /\ mappings[2].xml_source_id = 1
    /\ Target(mappings[2]) = << <<"S">>, <<"N", "/", "A">> >>

\* the path of the element at position p: the tags from the root down,
\* joined by "/"
RECURSIVE PathOf(_, _)
PathOf(root, p) ==
    IF p = <<>> THEN root.tag
    ELSE PathOf(root, SubSeq(p, 1, Len(p) - 1)) \o <<"/">> \o ElemAt(root, p).tag

Positions(root) == Range(IterPositions(root, <<>>))

HasNonBlankText(e) == e.text # None /\ \E i \in 1..Len(e.text) : e.text[i] \notin Whitespace

Count(list, x) == Cardinality({i \in 1..Len(list) : list[i] = x})

\* how many elements with no child and non-blank text have the path s, plus
\* how many (element, attribute) pairs have s as path/@attribute
ExpectedEmissions(root, s) ==
    Cardinality({p \in Positions(root) :
        /\ PathOf(root, p) = s
        /\ ElemAt(root, p).children = <<>>
        /\ HasNonBlankText(ElemAt(root, p))})
    + Cardinality({pa \in {<< p, i >> : p \in Positions(root), i \in 1..3} :
        /\ pa[2] <= Len(ElemAt(root, pa[1]).attrib)
        /\ PathOf(root, pa[1]) \o <<"/", "@">> \o ElemAt(root, pa[1]).attrib[pa[2]][1] = s})

AllPathStrings(root) ==
    {PathOf(root, p) : p \in Positions(root)}
    \cup {PathOf(root, pa[1]) \o <<"/", "@">> \o pa[2] :
             pa \in Positions(root) \X {<<"k">>, <<"m">>}}

\* C10: for every uploaded well-formed tree, get_xpath emits an element's
\* path once for each element that has no child element and whose text is
\* non-empty after trimming, and for no other element (so never for an
\* element with children, whatever its text); it emits path/@attr once for
\* every attribute of every element; and the registered tag list is exactly
\* the set of emitted paths, without duplicates, in ascending order.
C10_EmissionRule ==
    \A n \in 1..Len(xml_sources_data) :
        xml_sources_data[n].file.wf =>
            LET root == xml_sources_data[n].file.root
                tags == xml_sources_data[n].tags
                emitted == get_xpath(root, <<>>)
            IN  /\ \A s \in AllPathStrings(root) \cup Range(emitted) :
                       Count(emitted, s) = ExpectedEmissions(root, s)
                /\ Range(tags) = Range(emitted)
                /\ \A i, j \in 1..Len(tags) : i < j => StrLess(tags[i], tags[j])

\* C10 witness: the uploaded tree has an element with a child and non-blank
\* text of its own whose path is not in the list, a childless element with
\* blank text and an attribute, and two elements that emit the same path
C10_Witness ==
    /\ Len(xml_sources_data) = 1
    /\ xml_sources_data[1].file.wf
    /\ LET root == xml_sources_data[1].file.root
           tags == xml_sources_data[1].tags
       IN  /\ \E p \in Positions(root) :
                  /\ ElemAt(root, p).children # <<>>
                  /\ HasNonBlankText(ElemAt(root, p))
                  /\ PathOf(root, p) \notin Range(tags)
           /\ \E p \in Positions(root) :
                  /\ ElemAt(root, p).children = <<>>
                  /\ ElemAt(root, p).text = <<" ">>
                  /\ ElemAt(root, p).attrib # <<>>
           /\ \E s \in Range(tags) : Count(get_xpath(root, <<>>), s) = 2

\* an export ran to its end or failed
Exported == shown.status \in {"success", "error"}

\* the dict of one source in mappings_by_source_id of the last export
MappedOf(id) == Get(shown.context.mappings_by_source_id, id)

\* C3: when one document alone supplies an export, each of its sheets is a
\* table whose columns are the mapped columns, every column as long as the
\* longest list of values found for a column of the sheet, holding the
\* values found for it first and in their order, and None in every place
\* after them: nothing is cut off.
C3_RowAlignment ==
    (shown.status = "success" /\ Len(shown.context.source_ids) = 1) =>
        LET id == shown.context.source_ids[1]
            root == SourceById(id).file.root
            tables == shown.context.all_extracted[1]
        IN  /\ Keys(tables) = Keys(MappedOf(id))
            /\ \A s \in 1..Len(tables) :
                   LET df == tables[s][2]
                       cm == Get(MappedOf(id), tables[s][1])
                       raw(c) == ColumnValues(root, Get(cm, c)).values
                       target == Longest({Len(raw(c)) : c \in Range(Keys(cm))})
                   IN  /\ df.columns = Keys(cm)
                       /\ df.nrows = target
                       /\ \A c \in Range(Keys(cm)) :
                              /\ Len(Column(df, c)) = target
                              /\ \A r \in 1..target :
                                     Column(df, c)[r] =
                                         IF r <= Len(raw(c)) THEN raw(c)[r] ELSE None

\* C3 witness: an export gave N two values and A one value followed by None
C3_Witness ==
    /\ shown.status = "success"
    /\ Len(shown.context.source_ids) = 1
    /\ LET df == shown.context.all_extracted[1][1][2]
       IN  /\ df.columns = << <<"N">>, <<"A">> >>
           /\ Column(df, <<"N">>) = << <<"x">>, <<"y">> >>
           /\ Column(df, <<"A">>) = << <<"x">>, None >>

\* the children of the root that have the tag
MatchingKids(root, tag) == {i \in 1..Len(root.children) : root.children[i].tag = tag}

\* the sheet's only column is mapped to the attribute path ap, and no element
\* of the document that the path's tag matches carries the attribute
LoneAttributeColumn(root, cm, ap) ==
    /\ Len(cm) = 1
    /\ cm[1][2] = ap.path
    /\ \A i \in MatchingKids(root, ap.tag) :
           \A k \in 1..Len(root.children[i].attrib) :
               root.children[i].attrib[k][1] # ap.attr

\* C6 as stated: for an attribute path tag/@attr where no element carries the
\* attribute, the column's list of values is empty, also when elements match
\* tag.
C6_EmptyWhenNoAttribute ==
    (Exported /\ Len(xml_sources_data) = 1 /\ HasKey(shown.context.mappings_by_source_id, 1)) =>
        \A s \in 1..Len(MappedOf(1)) : \A ap \in ExtractAttrPaths :
            LoneAttributeColumn(xml_sources_data[1].file.root, MappedOf(1)[s][2], ap) =>
                /\ shown.status = "success"
                /\ Column(shown.context.all_extracted[1][s][2], MappedOf(1)[s][2][1][1]) = <<>>

\* C6 amended: for an attribute path tag/@attr where no element matched by
\* tag carries the attribute, the export does not fail and the column holds
\* one None for every element that tag matches; it is empty exactly when tag
\* matches no element.
C6_NonePerMatch ==
    (Exported /\ Len(xml_sources_data) = 1 /\ HasKey(shown.context.mappings_by_source_id, 1)) =>
        \A s \in 1..Len(MappedOf(1)) : \A ap \in ExtractAttrPaths :
            LoneAttributeColumn(xml_sources_data[1].file.root, MappedOf(1)[s][2], ap) =>
                /\ shown.status = "success"
                /\ Column(shown.context.all_extracted[1][s][2], MappedOf(1)[s][2][1][1]) =
                       Repeat(None, Cardinality(MatchingKids(xml_sources_data[1].file.root,
                                                             ap.tag)))

\* C6 witness: column N alone is mapped to a/c/@k, the document has two c
\* elements, neither with the attribute k, and the column is None, None
C6_Witness ==
    /\ shown.status = "success"
    /\ Len(xml_sources_data) = 1
    /\ shown.context.mappings_by_source_id =
           << << 1, << << <<"S">>, << << <<"N">>, <<"a", "/", "c", "/", "@", "k">> >> >> >> >> >> >>
    /\ Cardinality(MatchingKids(xml_sources_data[1].file.root, <<"c">>)) = 2
    /\ Column(shown.context.all_extracted[1][1][2], <<"N">>) = << None, None >>

\* the tables of the last export that hold the sheet, as places in
\* all_extracted (processing order)
TablesWith(sheet) ==
    {i \in 1..Len(shown.context.all_extracted) : HasKey(shown.context.all_extracted[i], sheet)}

\* the earliest of them that supplies the column
EarliestWith(sheet, col) ==
    CHOOSE i \in TablesWith(sheet) :
        /\ HasColumn(Get(shown.context.all_extracted[i], sheet), col)
        /\ \A j \in TablesWith(sheet) :
               HasColumn(Get(shown.context.all_extracted[j], sheet), col) => i <= j

PlaceIn(list, x) == CHOOSE k \in 1..Len(list) : list[k] = x

\* C1: in the merged tables of an export, every sheet holds exactly the
\* columns the documents' tables supply for it, each once; the values of a
\* column are those of the earliest document in processing order that
\* supplies it, also when later documents supply the column too; and the
\* columns stand in the order in which they first came: a later document's
\* new columns after those already there.
C1_FirstWriterWins ==
    shown.status = "success" =>
        LET tables == shown.context.all_extracted
        IN  /\ Range(Keys(shown.final)) = UNION {Range(Keys(tables[i])) : i \in 1..Len(tables)}
            /\ \A s \in 1..Len(shown.final) :
                   LET sheet == shown.final[s][1]
                       df == shown.final[s][2]
                       first(c) == EarliestWith(sheet, c)
                       at(c) == PlaceIn(Get(tables[first(c)], sheet).columns, c)
                   IN  /\ Range(df.columns) =
                              UNION {Range(Get(tables[i], sheet).columns) : i \in TablesWith(sheet)}
                       /\ \A k, l \in 1..Len(df.columns) :
                              k < l =>
                                  /\ df.columns[k] # df.columns[l]
                                  /\ \/ first(df.columns[k]) < first(df.columns[l])
                                     \/ /\ first(df.columns[k]) = first(df.columns[l])
                                        /\ at(df.columns[k]) < at(df.columns[l])
                       /\ \A c \in Range(df.columns) :
                              Column(df, c) = Column(Get(tables[first(c)], sheet), c)

\* C1 witness: the first and the second document both supply column N of
\* sheet S with different values, the second supplies column A as well; the
\* merged N is the first document's and A comes after it
C1_Witness ==
    /\ shown.status = "success"
    /\ Len(shown.context.all_extracted) = 2
    /\ LET one == Get(shown.context.all_extracted[1], <<"S">>)
           two == Get(shown.context.all_extracted[2], <<"S">>)
           df == Get(shown.final, <<"S">>)
       IN  /\ one.columns = << <<"N">> >>
           /\ two.columns = << <<"A">>, <<"N">> >>
           /\ Column(one, <<"N">>) # Column(two, <<"N">>)
           /\ df.columns = << <<"N">>, <<"A">> >>
           /\ Column(df, <<"N">>) = Column(one, <<"N">>)

\* the sources of the last export that have mappings into the sheet, as ids
\* in processing order
SourcesInto(sheet) ==
    {id \in Range(shown.context.source_ids) : HasKey(MappedOf(id), sheet)}

\* the values the document of source id holds at the path mapped to the column
FoundFor(id, sheet, col) ==
    ColumnValues(SourceById(id).file.root, Get(Get(MappedOf(id), sheet), col)).values

\* C2: in the merged tables of an export, every column of a sheet has as many
\* rows as the longest list of values found, for any column of the sheet, in
\* any document with mappings into the sheet; a column holds the values found
\* for it in its document, in order, and only absent values (None, NaN) in
\* the rows after them.
C2_Rectangular ==
    shown.status = "success" =>
        \A s \in 1..Len(shown.final) :
            LET sheet == shown.final[s][1]
                df == shown.final[s][2]
                target == Longest(UNION {{Len(FoundFor(id, sheet, c)) :
                                            c \in Range(Keys(Get(MappedOf(id), sheet)))} :
                                         id \in SourcesInto(sheet)})
                owner(c) == CHOOSE id \in SourcesInto(sheet) :
                                /\ HasKey(Get(MappedOf(id), sheet), c)
                                /\ \A other \in SourcesInto(sheet) :
                                       HasKey(Get(MappedOf(other), sheet), c) => id <= other
            IN  /\ df.nrows = target
                /\ \A c \in Range(df.columns) :
                       /\ Len(Column(df, c)) = target
                       /\ \A r \in 1..target :
                              IF r <= Len(FoundFor(owner(c), sheet, c))
                              THEN Column(df, c)[r] = FoundFor(owner(c), sheet, c)[r]
                              ELSE Column(df, c)[r] \in {None, NaN}

\* C2 witness: the first document gives N two rows, the second gives A three
\* rows, and the merged table has three rows with N absent in the third
C2_Witness ==
    /\ shown.status = "success"
    /\ shown.context.source_ids = << 1, 2 >>
    /\ Keys(Get(MappedOf(1), <<"S">>)) = << <<"N">> >>
    /\ Keys(Get(MappedOf(2), <<"S">>)) = << <<"A">> >>
    /\ Len(FoundFor(1, <<"S">>, <<"N">>)) = 2
    /\ Len(FoundFor(2, <<"S">>, <<"A">>)) = 3
    /\ LET df == Get(shown.final, <<"S">>)
       IN  /\ df.nrows = 3
           /\ Column(df, <<"N">>) = << <<"x">>, <<"y">>, NaN >>
           /\ Column(df, <<"A">>) = << <<"x">>, <<"y">>, <<" ">> >>

\* the sources of the last export that have mappings, in registration order
MappedSources ==
    {i \in 1..Len(xml_sources_data) :
        HasKey(shown.context.mappings_by_source_id, xml_sources_data[i].id)}

\* the path mapped to a column of a well-formed document does not resolve
Unresolved(i, sheet, col) ==
    ColumnValues(xml_sources_data[i].file.root,
                 Get(Get(MappedOf(xml_sources_data[i].id), sheet), col)).err

\* C4 as stated: in an export whose mapped documents are all well-formed, a
\* mapping whose path does not resolve to a search expression does not fail
\* the export: its column holds no value, and every other column of every
\* document holds the values found for it.
C4_ColumnIsolation ==
    (Exported /\ excel_temp_file.ok /\ \A i \in MappedSources : xml_sources_data[i].file.wf) =>
        /\ shown.status = "success"
        /\ \A k \in 1..Len(shown.context.source_ids) :
               LET id == shown.context.source_ids[k]
                   i == CHOOSE i \in MappedSources : xml_sources_data[i].id = id
                   tables == shown.context.all_extracted[k]
               IN  \A s \in 1..Len(tables) : \A c \in Range(tables[s][2].columns) :
                       LET col == Column(tables[s][2], c)
                       IN  IF Unresolved(i, tables[s][1], c)
                           THEN Range(col) \subseteq {None, NaN}
                           ELSE \A r \in 1..Len(FoundFor(id, tables[s][1], c)) :
                                    col[r] = FoundFor(id, tables[s][1], c)[r]

\* a path of tag names: a string that is no absolute path and names no attribute
IsTagPath(p) == p # None /\ p # <<>> /\ p[1] # "/" /\ ~HasChar(p, "@")

\* C5 as stated: a document that is not well-formed is registered with no
\* path, and an export with mappings from it, in which every path mapped from
\* a well-formed document resolves and every path mapped from another is a
\* path of tag names, still completes, with tables from the well-formed
\* documents only.
C5_MalformedIsolation ==
    /\ \A i \in 1..Len(xml_sources_data) :
           ~xml_sources_data[i].file.wf => xml_sources_data[i].tags = <<>>
    /\ (/\ Exported
        /\ excel_temp_file.ok
        /\ \A i \in MappedSources :
               LET m == MappedOf(xml_sources_data[i].id)
               IN  \A s \in 1..Len(m) : \A c \in Range(Keys(m[s][2])) :
                       IF xml_sources_data[i].file.wf
                       THEN ~Unresolved(i, m[s][1], c)
                       ELSE IsTagPath(Get(m[s][2], c)))
       => /\ shown.status = "success"
          /\ \A i \in MappedSources :
                 ~xml_sources_data[i].file.wf =>
                     xml_sources_data[i].id \notin Range(shown.context.source_ids)

\* the names of the merged columns given for the worksheet
MergedNames(ws) ==
    IF HasKey(shown.final, ws.title) THEN Range(Get(shown.final, ws.title).columns) ELSE {}

\* C7: the saved workbook has the sheets of the template, in its order and
\* with its widths; the first row of every sheet is the template's; a sheet
\* with no merged table is the template's sheet; and in a sheet with one,
\* every cell in row 1, or in a column whose header is no merged column's
\* name, holds what the template holds there.
C7_WriterFrame ==
    shown.status = "success" =>
        LET tpl == excel_temp_file.sheets
            out == shown.saved.sheets
        IN  /\ Len(out) = Len(tpl)
            /\ \A k \in 1..Len(tpl) :
                   /\ out[k].title = tpl[k].title
                   /\ out[k].ncols = tpl[k].ncols
                   /\ Len(out[k].rows) >= Len(tpl[k].rows)
                   /\ header_row_values(out[k]) = header_row_values(tpl[k])
                   /\ ~HasKey(shown.final, tpl[k].title) => out[k] = tpl[k]
                   /\ \A r \in 1..Len(out[k].rows) : \A c \in 1..tpl[k].ncols :
                          (r = 1 \/ CellValue(tpl[k], 1, c) \notin MergedNames(tpl[k]))
                              => CellValue(out[k], r, c) = CellValue(tpl[k], r, c)

\* C7 witness: tables for X and S were written into the template with sheets
\* S and T; S took the column N below its header and kept its header, its
\* column A and its fourth row; no sheet X was made
C7_Witness ==
    /\ shown.status = "success"
    /\ excel_temp_file = TplData
    /\ Keys(shown.final) = << <<"X">>, <<"S">> >>
    /\ Get(shown.final, <<"S">>).columns = << <<"Z">>, <<"N">> >>
    /\ Len(shown.saved.sheets) = 2
    /\ LET ws == shown.saved.sheets[1]
       IN  /\ ws.rows[1] = << <<"N">>, <<"A">> >>
           /\ ws.rows[2] = << <<"x">>, <<"d">> >>
           /\ ws.rows[3] = << <<"x">>, <<"d">> >>
           /\ ws.rows[4] = << <<"d">>, <<"d">> >>

\* C8 as stated: for every sheet of the template that has a merged table, and
\* every merged column whose name is in a header cell, the cell in row i + 2
\* below such a header holds the i-th value (i from 0) of the column, an
\* absent value leaving the cell empty.
C8_WriteBack ==
    shown.status = "success" =>
        \A k \in 1..Len(excel_temp_file.sheets) :
            LET tpl == excel_temp_file.sheets[k]
                out == shown.saved.sheets[k]
            IN  HasKey(shown.final, tpl.title) =>
                    LET df == Get(shown.final, tpl.title)
                    IN  \A c \in Range(df.columns) :
                            (\E h \in 1..tpl.ncols : CellValue(tpl, 1, h) = c) =>
                                \E h \in 1..tpl.ncols :
                                    /\ CellValue(tpl, 1, h) = c
                                    /\ \A i \in 0..(df.nrows - 1) :
                                           CellValue(out, i + 2, h) = Column(df, c)[i + 1]

\* the last export mapped one column of one sheet, from the only document, to
\* a path registered for that document
RoundTripExport ==
    /\ Exported
    /\ excel_temp_file.ok
    /\ Len(xml_sources_data) = 1
    /\ xml_sources_data[1].file.wf
    /\ Keys(shown.context.mappings_by_source_id) = << xml_sources_data[1].id >>
    /\ Len(MappedOf(xml_sources_data[1].id)) = 1
    /\ Len(MappedOf(xml_sources_data[1].id)[1][2]) = 1
    /\ MappedOf(xml_sources_data[1].id)[1][2][1][2] \in Range(xml_sources_data[1].tags)

\* the path of the last round trip export
RoundTripPath == MappedOf(xml_sources_data[1].id)[1][2][1][2]

\* no tag of the tree holds the character "@"
PlainNames(root) == \A p \in Positions(root) : ~HasChar(ElemAt(root, p).tag, "@")

\* C11 as stated: for every document, an export that maps a single column to
\* a path the Path Extractor registered for the document resolves the path
\* to a search expression findall accepts and completes with a list of
\* values for the column.
C11_RoundTrip ==
    RoundTripExport =>
        /\ ~ColumnValues(xml_sources_data[1].file.root, RoundTripPath).err
        /\ shown.status = "success"
        /\ Len(shown.context.all_extracted[1]) = 1
        /\ Len(shown.context.all_extracted[1][1][2].columns) = 1

\* The round trip does hold for the documents none of whose tags holds "@",
\* paths on the root and below an element with the root's tag included, and
\* every value list then has an entry for each element the path came from.
RoundTripOfPlainNames ==
    (RoundTripExport /\ PlainNames(xml_sources_data[1].file.root)) =>
        /\ shown.status = "success"
        /\ shown.context.all_extracted[1][1][2].nrows >= 1

\* the last export extracted and merged without an error, and the Template
\* Writer then raised
WriterFailed == shown.status = "error" /\ ~shown.context.err

\* C12 as stated: an export in which the Template Writer fails saves no
\* workbook, and after it the session holds no output path and no success is
\* shown.
C12_NoPathAfterFailure ==
    [][ WriterFailed' =>
            /\ output_file_exists' = output_file_exists
            /\ ~output_excel_path'
      ]_vars

\* C12 amended: an export in which the Template Writer fails (load_workbook
\* raises, or a cell write raises partway) shows the error, saves no workbook
\* and does not set the output path: the file and the path are as they were
\* before it, so a path kept from an earlier successful export stays.
\* Success is shown only by an export whose writer did not raise, together
\* with the saved workbook being the whole template with the tables written
\* into it and the output path being set; and a path that is held always
\* names a saved workbook.
C12_NoPartialOutput ==
    [][ /\ WriterFailed' =>
               /\ write_dataframes_to_excel(excel_temp_file, shown'.context.final).err
               /\ output_file_exists' = output_file_exists
               /\ output_excel_path' = output_excel_path
        /\ shown'.status = "success" =>
               /\ ~write_dataframes_to_excel(excel_temp_file, shown'.final).err
               /\ shown'.saved =
                      write_dataframes_to_excel(excel_temp_file, shown'.final).saved
               /\ Len(shown'.saved.sheets) = Len(excel_temp_file.sheets)
               /\ output_excel_path'
        /\ output_excel_path' => output_file_exists'
      ]_vars

\* C12 witness: on the template with the merged cell, an export succeeded and
\* a later one, with mappings that put a value into the merged cell, failed
\* in the writer; the path of the earlier export is still held
C12_Witness ==
    /\ WriterFailed
    /\ excel_temp_file = TplMerged
    /\ ColumnRaises(excel_temp_file.sheets[1], 1,
                    Column(Get(shown.context.final, <<"S">>), <<"N">>))
    /\ output_excel_path
    /\ output_file_exists

\* the orders in which n tables can be processed
Orders(n) == {f \in [1..n -> 1..n] : \A a, b \in 1..n : f[a] = f[b] => a = b}

\* what merged tables hold, the order of sheets and columns left aside: the
\* row count of every sheet and the values of every column
Content(final) ==
    {<< final[s][1], final[s][2].nrows >> : s \in 1..Len(final)}
    \cup UNION {{<< final[s][1], final[s][2].columns[k], final[s][2].data[k] >> :
                    k \in 1..Len(final[s][2].columns)} : s \in 1..Len(final)}

\* C13: in every export of the application that was extracted and merged
\* (after any template uploads and changes, XML uploads, source selections
\* and Add Mapping and Remove Last Mapping presses), no two documents' tables
\* have a column of the same sheet in common; so every column of every
\* document's table is in the merged table with that document's values, and
\* merging the documents' tables in any other order gives the same rows and
\* columns and the same written workbook.
C13_DisjointSources ==
    (shown.status \in {"success", "error"} /\ ~shown.context.err) =>
        LET tables == shown.context.all_extracted
            final == shown.context.final
        IN  /\ \A i, j \in 1..Len(tables) :
                   i < j =>
                       \A a \in 1..Len(tables[i]), b \in 1..Len(tables[j]) :
                           tables[i][a][1] = tables[j][b][1] =>
                               Range(tables[i][a][2].columns)
                                   \cap Range(tables[j][b][2].columns) = {}
            /\ \A i \in 1..Len(tables) : \A a \in 1..Len(tables[i]) :
                   \A c \in Range(tables[i][a][2].columns) :
                       /\ HasKey(final, tables[i][a][1])
                       /\ HasColumn(Get(final, tables[i][a][1]), c)
                       /\ Column(Get(final, tables[i][a][1]), c) = Column(tables[i][a][2], c)
            /\ \A f \in Orders(Len(tables)) :
                   LET other == MergeAll([k \in 1..Len(tables) |-> tables[f[k]]], 1, <<>>)
                   IN  /\ Content(other) = Content(final)
                       /\ write_dataframes_to_excel(excel_temp_file, other) =
                              write_dataframes_to_excel(excel_temp_file, final)

\* C13 witness: the second document was mapped first and the first after it,
\* both into sheet S, and the export merged the first document's column
\* before the second's
C13_Witness ==
    /\ shown.status = "success"
    /\ Len(mappings) = 2
    /\ mappings[1].xml_source_id = 2
    /\ mappings[2].xml_source_id = 1
    /\ Len(shown.context.all_extracted) = 2
    /\ Get(shown.final, <<"S">>).columns = << <<"N", "/", "A">>, <<"N">> >>
    /\ Get(shown.final, <<"S">>).nrows = 3

\* the mapping names a column of the loaded template and a registered source
NamesColumnAndSource(m) ==
    /\ m.excel \in Range(flat_excel_columns)
    /\ m.xml_source_id \in SourceIds

\* C14 as stated: after any sequence of template uploads and changes, XML
\* uploads (documents with no path among them), source selections, Add
\* Mapping and Remove Last Mapping presses and exports, every stored mapping
\* names a column of the loaded template, a registered source document, and a
\* path that is not None and is in that document's list of paths.
C14_WellFormedMappings ==
    \A i \in 1..Len(mappings) :
        /\ NamesColumnAndSource(mappings[i])
        /\ mappings[i].xml_path # None
        /\ mappings[i].xml_path \in Range(SourceById(mappings[i].xml_source_id).tags)

\* What does hold of every stored mapping: its column and its source are as
\* C14 says, and its path is in the source's list of paths unless that list
\* is empty, in which case the path is None.
MappingsWellFormedOrNone ==
    \A i \in 1..Len(mappings) :
        /\ NamesColumnAndSource(mappings[i])
        /\ IF SourceById(mappings[i].xml_source_id).tags = <<>>
           THEN mappings[i].xml_path = None
           ELSE mappings[i].xml_path \in Range(SourceById(mappings[i].xml_source_id).tags)

====
